---- MODULE Spec2Model ----
(***************************************************************************)
(* WaitHelper (features/utils/WaitHelper.ts): the condition poller         *)
(* waitForCondition and the retry runner retryOperation.                   *)
(*                                                                         *)
(* Time is a discrete clock `now` (the value Date.now() returns).  The     *)
(* synchronous parts of a call take no time; the clock advances only while *)
(* a call is suspended at an await: while the caller's condition or        *)
(* operation is in flight (its latency) and while the poll timer is        *)
(* pending (setTimeout fires at or after its delay, never before it).      *)
(***************************************************************************)
EXTENDS Integers, Sequences, FiniteSets

\* ---------------------------------------------------------------- bounds
MaxStart   == 1      \* Date.now() when the call is made: 0..MaxStart
MaxTimeout == 5      \* timeoutMs argument: 0..MaxTimeout
MaxPoll    == 2      \* pollIntervalMs argument: 1..MaxPoll
MaxFalse   == 3      \* leading false results of a condition: 0..MaxFalse
MaxLat     == 1      \* longest latency of one condition()/operation() call
MaxLate    == 2      \* how late a timer may fire after its delay
MaxRetries == 3      \* maxRetries argument: -1..MaxRetries
MaxSpin    == 2      \* timer callbacks the event loop runs per clock value
MaxAudits  == 2      \* audit results recorded before the next clear()
MaxViolations == 1   \* violations one scan reports: 0..MaxViolations
MaxClickRetries == 4 \* options.retries of safeClick: -1..MaxClickRetries
MaxChecks  == 2      \* visibility checks of a page that may differ: 1..MaxChecks
MaxDialogs == 2      \* dialogs the page raises during and after a dialog wait

VARIABLES
  now,          \* the wall clock, Date.now()
  \* ---- one waitForCondition call
  wpc,          \* "idle","check","eval","sleep","returned","failed"
  wstart,       \* const start = Date.now()
  wtimeout,     \* timeoutMs
  wpoll,        \* pollIntervalMs
  wcond,        \* the caller's condition: [k, term]
  wcalls,       \* invocations of condition so far
  wsleeps,      \* poll-interval sleeps started so far
  wtrue,        \* some evaluation of condition yielded true
  wevalStart,   \* clock when the evaluation in flight was invoked
  wlat,         \* latency of the last settled evaluation
  wtotLat,      \* sum of the latencies of all settled evaluations
  wsleepUntil,  \* clock at which the pending timer is due
  wlate,        \* lateness of the last timer that fired
  wtotLate,     \* sum of the latenesses of all timers that fired
  werr,         \* the error the call failed with
  wend,         \* clock when the call resolved or failed
  \* ---- one retryOperation call
  rpc,          \* "idle","loop","op","returned","failed"
  rmax,         \* maxRetries
  rop,          \* the caller's operation: outcome of each invocation
  attempt,      \* the loop variable
  rcalls,       \* invocations of operation so far
  lastError,    \* let lastError
  rresult,      \* the value the call resolved with
  rerr,         \* the value the call failed with
  ropStart,     \* clock when the invocation in flight was made
  rsettled,     \* clock when the last invocation settled
  rend,         \* clock when the call resolved or failed
  \* ---- concurrent calls, each with its own stack frame
  cst,          \* per call: arguments, position and bookkeeping
  frames,       \* per stack frame: the locals start, attempt, lastError
  \* ---- one AccessibilityAudit instance
  violations,   \* private violations: AccessibilityViolation[]
  auditResults, \* private auditResults: AuditResult[]
  apc,          \* "idle", or "scan" while builder.analyze() is in flight
  aargs,        \* { context, includeSelector } of the audit in progress
  aret,         \* how the last audit call settled: <<>> or one record
  \* ---- one BasePage.safeClick call
  spc,          \* "idle","loop","click","wait","returned","failed"
  sopt,         \* options?.retries: given or not, and its value
  sretries,     \* const retries
  sattempt,     \* the loop variable attempt
  sclicks,      \* locator.click() calls made so far
  swaits,       \* page.waitForTimeout(RETRY_DELAY_MS) calls made so far
  sscript,      \* the locator: outcome of each click
  serr,         \* the error the call failed with
  \* ---- the page objects that wait with WaitHelper.waitForCondition
  vscript,      \* the page: outcome of each locator.isVisible() of the wait
  hpc,          \* addToCart: "idle","click","wait","returned","failed"
  alert,        \* the add-to-cart alert: "none","pending","shown","hidden"
  kpc,          \* submitEmptyCheckoutAndVerifyValidation: "idle","init",
                \* "click","alert","wait","still","returned","failed"
  kinit,        \* const initiallyVisible
  kobs,         \* what the page did when the alert text was awaited
  kalert,       \* const alertMessage
  kstill,       \* const stillVisible
  kret,         \* the value the call resolved with: <<>> or one record
  kerr,         \* why the call failed: "none" or "click"
  \* ---- DemoblazeCartPage.verifyFormValidationOnEmptySubmit
  fpc,          \* "idle","init","click","wait","still","returned","failed"
  finit,        \* const initiallyVisible
  fstill,       \* const stillVisible
  fret,         \* the value the call resolved with: <<>> or one boolean
  ferr,         \* why the call failed: "none", "click" or "timeout"
  \* ---- the two WaitHelper implementations, run on the same input
  ecall,        \* the call made: function, arguments, caller's behaviour
  elit,         \* what features/utils/WaitHelper.ts does: <<>> or one run
  enam,         \* what the named-constants WaitHelper does: <<>> or one run
  \* ---- one DemoblazeProductPage.waitForDialogMessage call
  dpc,          \* the promise: "idle","pending","resolved"
  dvalue,       \* the value the promise resolved with
  dlistener,    \* the page.once('dialog', ..) listener is registered
  dtimer,       \* the setTimeout timer: "none","armed","fired"
  ddue,         \* clock value the timer is due at
  devents,      \* the dialogs raised and the timer firing, in order
  daccepted,    \* dialogs accepted by the listener of this call
  dsettles      \* times the value of the promise was set

wvars == <<wpc, wstart, wtimeout, wpoll, wcond, wcalls, wsleeps, wtrue,
           wevalStart, wlat, wtotLat, wsleepUntil, wlate, wtotLate, werr, wend>>
rvars == <<rpc, rmax, rop, attempt, rcalls, lastError, rresult, rerr,
           ropStart, rsettled, rend>>
cvars == <<cst, frames>>
avars == <<violations, auditResults, apc, aargs, aret>>
svars == <<spc, sopt, sretries, sattempt, sclicks, swaits, sscript, serr>>
\* the variables outside WaitHelper
pvars == <<vscript, hpc, alert, kpc, kinit, kobs, kalert, kstill, kret, kerr>>
fvars == <<fpc, finit, fstill, fret, ferr>>
evars == <<ecall, elit, enam>>
dvars == <<dpc, dvalue, dlistener, dtimer, ddue, devents, daccepted, dsettles>>
\* the variables of the further page objects and of the comparison
zvars == <<fvars, evars, dvars>>
xvars == <<avars, svars, pvars, zvars>>
\* the variables outside the single waitForCondition / retryOperation call
ovars == <<cvars, xvars>>
vars  == <<now, wvars, rvars, ovars>>

\* ------------------------------------------------------------ input sets
Timeouts      == 0..MaxTimeout
PollIntervals == 1..MaxPoll
\* A condition yields false on its first k evaluations and `term` on every
\* later one.  The first non-false result ends the call, so this covers every
\* sequence of results a condition can produce.
Conditions    == [k : 0..MaxFalse, term : {"true", "false", "throw"}]

\* the value of a variable that was never assigned
Undefined == "undefined"
\* no error: the call has not failed
NoError   == [kind |-> "none"]
RNoError  == "none"

\* the result of the i-th evaluation of condition c
CondOutcome(c, i) == IF i <= c.k THEN "false" ELSE c.term
\* the error a throwing condition rejects with
CondError(c) == [kind |-> "condition", at |-> c.k + 1]
\* new Error(`Condition not met within ${timeoutMs}ms`)
TimeoutError(t) == [kind |-> "timeout", ms |-> t]

\* ------------------------------------------------------ waitForCondition
\* mutant: the loop test forgets the start time
WithinBudgetNoStart(n, s, t) == n < t
\* mutant: the loop test lets the elapsed time reach the timeout
WithinBudgetInclusive(n, s, t) == n - s <= t
\* mutant: the budget is counted in poll intervals slept, not on the clock
WithinBudgetBySleeps(n, s, t) == wsleeps * wpoll < t
\* while (Date.now() - start < timeoutMs)
WithinBudget(n, s, t) == n - s < t

\* mutant: the timer is armed with twice the poll interval
TimerDueDouble(n, p) == n + 2 * p
\* setTimeout(resolve, pollIntervalMs): the clock value the timer is due at
TimerDue(n, p) == n + p

\* mutant: an await inserted before the loop test
WSuspendedAtCheck(pc) == pc \in {"eval", "sleep", "check"}
\* the awaits of waitForCondition: await condition(), await new Promise(..)
WSuspended(pc) == pc \in {"eval", "sleep"}

WStart(t, p, c) ==
  /\ wpc = "idle"
  /\ wpc' = "check"
  /\ wstart' = now
  /\ wtimeout' = t
  /\ wpoll' = p
  /\ wcond' = c
  /\ UNCHANGED <<now, wcalls, wsleeps, wtrue, wevalStart, wlat, wtotLat,
                 wsleepUntil, wlate, wtotLate, werr, wend, rvars, ovars>>

\* the loop test: enter the body and invoke condition, or leave and throw
WCheck ==
  /\ wpc = "check"
  /\ IF WithinBudget(now, wstart, wtimeout)
       THEN /\ wpc' = "eval"
            /\ wcalls' = wcalls + 1
            /\ wevalStart' = now
            /\ UNCHANGED <<werr, wend>>
       ELSE /\ wpc' = "failed"
            /\ werr' = TimeoutError(wtimeout)
            /\ wend' = now
            /\ UNCHANGED <<wcalls, wevalStart>>
  /\ UNCHANGED <<now, wstart, wtimeout, wpoll, wcond, wsleeps, wtrue, wlat,
                 wtotLat, wsleepUntil, wlate, wtotLate, rvars, ovars>>

\* bookkeeping shared by the three ways an evaluation settles
WSettled ==
  /\ wlat' = now - wevalStart
  /\ wtotLat' = wtotLat + (now - wevalStart)

\* mutant: a true result does not end the loop
WCondTrueKeepsPolling ==
  /\ wpc = "eval"
  /\ CondOutcome(wcond, wcalls) = "true"
  /\ WSettled
  /\ wpc' = "sleep"
  /\ wtrue' = TRUE
  /\ wsleeps' = wsleeps + 1
  /\ wsleepUntil' = TimerDue(now, wpoll)
  /\ UNCHANGED <<now, wstart, wtimeout, wpoll, wcond, wcalls, wevalStart,
                 wlate, wtotLate, werr, wend, rvars, ovars>>
\* if (await condition()) return;
WCondTrue ==
  /\ wpc = "eval"
  /\ CondOutcome(wcond, wcalls) = "true"
  /\ WSettled
  /\ wpc' = "returned"
  /\ wtrue' = TRUE
  /\ wend' = now
  /\ UNCHANGED <<now, wstart, wtimeout, wpoll, wcond, wcalls, wsleeps,
                 wevalStart, wsleepUntil, wlate, wtotLate, werr, rvars, ovars>>

\* condition() resolved false: await new Promise(r => setTimeout(r, poll))
WCondFalse ==
  /\ wpc = "eval"
  /\ CondOutcome(wcond, wcalls) = "false"
  /\ WSettled
  /\ wpc' = "sleep"
  /\ wsleeps' = wsleeps + 1
  /\ wsleepUntil' = TimerDue(now, wpoll)
  /\ UNCHANGED <<now, wstart, wtimeout, wpoll, wcond, wcalls, wtrue,
                 wevalStart, wlate, wtotLate, werr, wend, rvars, ovars>>

\* mutant: a rejected condition is taken for false and polling goes on
WCondThrowSwallowed ==
  /\ wpc = "eval"
  /\ CondOutcome(wcond, wcalls) = "throw"
  /\ WSettled
  /\ wpc' = "sleep"
  /\ wsleeps' = wsleeps + 1
  /\ wsleepUntil' = TimerDue(now, wpoll)
  /\ UNCHANGED <<now, wstart, wtimeout, wpoll, wcond, wcalls, wtrue,
                 wevalStart, wlate, wtotLate, werr, wend, rvars, ovars>>
\* condition() rejected: there is no try/catch, the await rethrows
WCondThrow ==
  /\ wpc = "eval"
  /\ CondOutcome(wcond, wcalls) = "throw"
  /\ WSettled
  /\ wpc' = "failed"
  /\ werr' = CondError(wcond)
  /\ wend' = now
  /\ UNCHANGED <<now, wstart, wtimeout, wpoll, wcond, wcalls, wsleeps, wtrue,
                 wevalStart, wsleepUntil, wlate, wtotLate, rvars, ovars>>

\* the timer fires, at or after the clock value it is due at
WWake ==
  /\ wpc = "sleep"
  /\ now >= wsleepUntil
  /\ wpc' = "check"
  /\ wlate' = now - wsleepUntil
  /\ wtotLate' = wtotLate + (now - wsleepUntil)
  /\ UNCHANGED <<now, wstart, wtimeout, wpoll, wcond, wcalls, wsleeps, wtrue,
                 wevalStart, wlat, wtotLat, wsleepUntil, werr, wend, rvars, ovars>>

\* the clock advances while the call is suspended
WTick ==
  /\ WSuspended(wpc)
  /\ wpc = "eval"  => now - wevalStart < MaxLat
  /\ wpc = "sleep" => now < wsleepUntil + MaxLate
  /\ wpc = "check" => now - wstart < MaxLate /\ wcalls = 0
  /\ now' = now + 1
  /\ UNCHANGED <<wvars, rvars, ovars>>

\* the call has resolved or failed
WDone == wpc \in {"returned", "failed"}

\* Termination is studied with every pollInterval, zero and negative ones
\* included: setTimeout accepts them and the timer is then due at once.
LivePolls == -1..MaxPoll

\* the longest a call can have run while it is suspended: the last
\* evaluation starts within the budget, takes its latency, and is followed
\* by one sleep whose timer fires late
Horizon == MaxTimeout + MaxLat + MaxPoll + MaxLate

\* the timer fires; the event loop runs finitely many timer callbacks per
\* clock value, so a timer that is due at once still lets the clock advance
WWakeLive ==
  /\ wcalls < MaxSpin * (now - wstart + 1)
  /\ WWake

\* the clock keeps advancing while the call is suspended
WTickLive ==
  /\ now - wstart < Horizon
  /\ WTick

\* --------------------------------------------------------- retryOperation
\* what one invocation of the caller's operation does: resolve with a
\* result or reject with an error
Results  == {"R1", "R2"}
Errors   == {"E1", "E2", "E3"}
Outcomes == Results \cup Errors
\* an operation: the outcome of its 1st, 2nd, ... invocation
Operations == [1..MaxRetries -> Outcomes]
RetryCounts == -1..MaxRetries

\* the outcome of the i-th invocation of operation op
OpOutcome(op, i) == IF i \in DOMAIN op THEN op[i] ELSE op[Len(op)]

\* mutants of the loop test: one attempt too many, one too few
MoreAttemptsInclusive(a, m) == a <= m
MoreAttemptsFewer(a, m) == a < m - 1
\* for (...; attempt < maxRetries; ...)
MoreAttempts(a, m) == a < m

\* mutant: only the first failure is remembered
CaughtFirst(old, e) == IF old = Undefined THEN e ELSE old
\* catch (error) { lastError = error; }
Caught(old, e) == e

\* mutant: a delay is awaited between two attempts
RSuspendedBetween(pc) == pc \in {"op", "loop"}
\* the only await of retryOperation: return await operation()
RSuspended(pc) == pc = "op"

\* mutant: the loop variable starts below zero
RStartBelowZero(m, op) ==
  /\ rpc = "idle"
  /\ rpc' = "loop"
  /\ rmax' = m
  /\ rop' = op
  /\ attempt' = -1
  /\ lastError' = Undefined
  /\ rsettled' = now
  /\ UNCHANGED <<now, rcalls, rresult, rerr, ropStart, rend, wvars, ovars>>
RStart(m, op) ==
  /\ rpc = "idle"
  /\ rpc' = "loop"
  /\ rmax' = m
  /\ rop' = op
  /\ attempt' = 0
  /\ lastError' = Undefined
  /\ rsettled' = now
  /\ UNCHANGED <<now, rcalls, rresult, rerr, ropStart, rend, wvars, ovars>>

\* the loop test: invoke operation once more, or leave and throw lastError
RLoop ==
  /\ rpc = "loop"
  /\ IF MoreAttempts(attempt, rmax)
       THEN /\ rpc' = "op"
            /\ rcalls' = rcalls + 1
            /\ ropStart' = now
            /\ UNCHANGED <<rerr, rend>>
       ELSE /\ rpc' = "failed"
            /\ rerr' = lastError
            /\ rend' = now
            /\ UNCHANGED <<rcalls, ropStart>>
  /\ UNCHANGED <<now, rmax, rop, attempt, lastError, rresult, rsettled, wvars, ovars>>

\* return await operation(): the invocation resolved
ROpResolve ==
  /\ rpc = "op"
  /\ OpOutcome(rop, rcalls) \in Results
  /\ rpc' = "returned"
  /\ rresult' = OpOutcome(rop, rcalls)
  /\ rsettled' = now
  /\ rend' = now
  /\ UNCHANGED <<now, rmax, rop, attempt, rcalls, lastError, rerr, ropStart,
                 wvars, ovars>>

\* mutant: an invocation that has taken time is abandoned as a failure
ROpRejectOnDeadline ==
  /\ rpc = "op"
  /\ OpOutcome(rop, rcalls) \in Errors \/ now - ropStart >= 1
  /\ rpc' = "loop"
  /\ lastError' = Caught(lastError, IF OpOutcome(rop, rcalls) \in Errors
                                      THEN OpOutcome(rop, rcalls) ELSE "E3")
  /\ attempt' = attempt + 1
  /\ rsettled' = now
  /\ UNCHANGED <<now, rmax, rop, rcalls, rresult, rerr, ropStart, rend, wvars, ovars>>
\* the invocation rejected: catch, remember the error, attempt++
ROpReject ==
  /\ rpc = "op"
  /\ OpOutcome(rop, rcalls) \in Errors
  /\ rpc' = "loop"
  /\ lastError' = Caught(lastError, OpOutcome(rop, rcalls))
  /\ attempt' = attempt + 1
  /\ rsettled' = now
  /\ UNCHANGED <<now, rmax, rop, rcalls, rresult, rerr, ropStart, rend, wvars, ovars>>

\* the clock advances while the call is suspended
RTick ==
  /\ RSuspended(rpc)
  /\ rpc = "op"   => now - ropStart < MaxLat
  /\ rpc = "loop" => now - rsettled < MaxLate
  /\ now' = now + 1
  /\ UNCHANGED <<wvars, rvars, ovars>>

\* the call has resolved or failed
RDone == rpc \in {"returned", "failed"}

\* ------------------------------------------------------- concurrent calls
\* Two calls of WaitHelper run interleaved at their awaits.  Each is a
\* waitForCondition or a retryOperation call; its locals live in its own
\* stack frame.  Synchronous code runs to the next await before the clock
\* can advance or another call can be observed mid-statement.
Calls == {"A", "B"}

\* the arguments the concurrent callers pass
ConcTimeouts == 1..2
ConcPolls    == {1}
ConcConds    == [k : 0..1, term : {"true", "false", "throw"}]
ConcRetries  == 0..2
ConcOps      == [1..2 -> {"R1", "E1", "E2"}]

\* a call that has not been made
IdleCall ==
  [kind |-> "none", pc |-> "idle", t |-> 0, p |-> 1,
   c |-> [k |-> 0, term |-> "false"], m |-> 0, op |-> <<>>,
   calls |-> 0, began |-> 0, at |-> 0, due |-> 0, ended |-> 0,
   out |-> "none"]
\* the locals of a call that has not been made
EmptyFrame == [start |-> 0, attempt |-> 0, lastError |-> Undefined]

\* mutant: the locals are one set of static fields shared by all calls
SlotShared(p) == "A"
\* start, attempt and lastError are locals (const / let): one per call
Slot(p) == p

\* positions in which a call is suspended at an await
CSuspended(pc) == pc \in {"eval", "sleep", "op"}
\* positions in which a call is running synchronous code
CRunning(pc) == pc \in {"check", "loop"}

CStartWait(p, t, pl, c) ==
  /\ cst[p].pc = "idle"
  /\ cst' = [cst EXCEPT ![p].kind = "wait", ![p].pc = "check", ![p].t = t,
                        ![p].p = pl, ![p].c = c, ![p].began = now]
  /\ frames' = [frames EXCEPT ![Slot(p)].start = now]
  /\ UNCHANGED <<now, wvars, rvars, xvars>>

CCheck(p) ==
  /\ cst[p].pc = "check"
  /\ IF WithinBudget(now, frames[Slot(p)].start, cst[p].t)
       THEN cst' = [cst EXCEPT ![p].pc = "eval", ![p].calls = @ + 1,
                               ![p].at = now]
       ELSE cst' = [cst EXCEPT ![p].pc = "failed", ![p].ended = now,
                               ![p].out = TimeoutError(cst[p].t)]
  /\ UNCHANGED <<now, frames, wvars, rvars, xvars>>

CCondTrue(p) ==
  /\ cst[p].pc = "eval"
  /\ CondOutcome(cst[p].c, cst[p].calls) = "true"
  /\ cst' = [cst EXCEPT ![p].pc = "returned", ![p].ended = now]
  /\ UNCHANGED <<now, frames, wvars, rvars, xvars>>

CCondFalse(p) ==
  /\ cst[p].pc = "eval"
  /\ CondOutcome(cst[p].c, cst[p].calls) = "false"
  /\ cst' = [cst EXCEPT ![p].pc = "sleep", ![p].due = TimerDue(now, cst[p].p)]
  /\ UNCHANGED <<now, frames, wvars, rvars, xvars>>

CCondThrow(p) ==
  /\ cst[p].pc = "eval"
  /\ CondOutcome(cst[p].c, cst[p].calls) = "throw"
  /\ cst' = [cst EXCEPT ![p].pc = "failed", ![p].ended = now,
                        ![p].out = CondError(cst[p].c)]
  /\ UNCHANGED <<now, frames, wvars, rvars, xvars>>

CWake(p) ==
  /\ cst[p].pc = "sleep"
  /\ now >= cst[p].due
  /\ cst' = [cst EXCEPT ![p].pc = "check"]
  /\ UNCHANGED <<now, frames, wvars, rvars, xvars>>

CStartRetry(p, m, op) ==
  /\ cst[p].pc = "idle"
  /\ cst' = [cst EXCEPT ![p].kind = "retry", ![p].pc = "loop", ![p].m = m,
                        ![p].op = op, ![p].began = now]
  /\ frames' = [frames EXCEPT ![Slot(p)].attempt = 0,
                              ![Slot(p)].lastError = Undefined]
  /\ UNCHANGED <<now, wvars, rvars, xvars>>

CLoop(p) ==
  /\ cst[p].pc = "loop"
  /\ IF MoreAttempts(frames[Slot(p)].attempt, cst[p].m)
       THEN cst' = [cst EXCEPT ![p].pc = "op", ![p].calls = @ + 1,
                               ![p].at = now]
       ELSE cst' = [cst EXCEPT ![p].pc = "failed", ![p].ended = now,
                               ![p].out = frames[Slot(p)].lastError]
  /\ UNCHANGED <<now, frames, wvars, rvars, xvars>>

COpResolve(p) ==
  /\ cst[p].pc = "op"
  /\ OpOutcome(cst[p].op, cst[p].calls) \in Results
  /\ cst' = [cst EXCEPT ![p].pc = "returned", ![p].ended = now,
                        ![p].out = OpOutcome(cst[p].op, cst[p].calls)]
  /\ UNCHANGED <<now, frames, wvars, rvars, xvars>>

COpReject(p) ==
  /\ cst[p].pc = "op"
  /\ OpOutcome(cst[p].op, cst[p].calls) \in Errors
  /\ cst' = [cst EXCEPT ![p].pc = "loop"]
  /\ frames' = [frames EXCEPT
       ![Slot(p)].lastError = Caught(@, OpOutcome(cst[p].op, cst[p].calls)),
       ![Slot(p)].attempt = @ + 1]
  /\ UNCHANGED <<now, wvars, rvars, xvars>>

\* the clock advances while every call in progress is suspended
CTick ==
  /\ \E p \in Calls : CSuspended(cst[p].pc)
  /\ \A p \in Calls :
       /\ ~CRunning(cst[p].pc)
       /\ cst[p].pc \in {"eval", "op"} => now - cst[p].at < MaxLat
       /\ cst[p].pc = "sleep" => now < cst[p].due + MaxLate
  /\ now' = now + 1
  /\ UNCHANGED <<wvars, rvars, ovars>>

\* what a retryOperation call produces on its own, from attempt a on with
\* `last` the error remembered so far
RECURSIVE RetryFrom(_, _, _, _)
RetryFrom(m, op, a, last) ==
  IF MoreAttempts(a, m)
    THEN IF OpOutcome(op, a + 1) \in Results
           THEN [pc |-> "returned", out |-> OpOutcome(op, a + 1), calls |-> a + 1]
           ELSE RetryFrom(m, op, a + 1, Caught(last, OpOutcome(op, a + 1)))
    ELSE [pc |-> "failed", out |-> last, calls |-> a]
RetryAlone(m, op) == RetryFrom(m, op, 0, Undefined)

\* ------------------------------------------- page objects that poll
\* DemoblazeHomePage.addToCart and
\* DemoblazeCartPage.submitEmptyCheckoutAndVerifyValidation wait with
\* WaitHelper.waitForCondition(cond, SHORT_TIMEOUT_MS,
\* DEFAULT_POLL_INTERVAL_MS).  Here the clock counts poll intervals.
SHORT_TIMEOUT_MS == 3000
DEFAULT_POLL_INTERVAL_MS == 100
SiteTimeout == SHORT_TIMEOUT_MS \div DEFAULT_POLL_INTERVAL_MS
SitePoll    == DEFAULT_POLL_INTERVAL_MS \div DEFAULT_POLL_INTERVAL_MS

\* what one locator.isVisible() does: resolve true or false, or reject
VisOutcomes == {"true", "false", "throw"}
\* a page: the outcome of the 1st, 2nd, ... visibility check of a wait; the
\* last one repeats
VisScripts == [1..MaxChecks -> VisOutcomes]
VOutcome(script, i) ==
  IF i \in DOMAIN script THEN script[i] ELSE script[Len(script)]

\* isOrderModalVisible: this.orderModal.isVisible().catch(() => false),
\* used as the condition async () => await this.isOrderModalVisible()
ModalCond(v) == IF v = "true" THEN "true" ELSE "false"
\* async () => !(await this.alertBox.isVisible().catch(() => false))
AlertGoneCond(v) == IF v = "true" THEN "false" ELSE "true"

\* the result of the condition of a call site for one visibility check
SiteCond(site, v) ==
  IF site = "orderModal" THEN ModalCond(v) ELSE AlertGoneCond(v)

\* the condition a site passes to waitForCondition, as the number of false
\* results before the first true one
ToCondition(site, script) ==
  LET hits == {i \in DOMAIN script : SiteCond(site, script[i]) # "false"}
  IN IF hits = {}
       THEN [k |-> 0, term |-> "false"]
       ELSE LET j == CHOOSE i \in hits : \A h \in hits : i <= h
            IN [k |-> j - 1, term |-> SiteCond(site, script[j])]

\* a visibility check resolves with what the page shows at that moment
ShowsAlert(v, a) ==
  /\ v = "true"  => a = "shown"
  /\ v = "false" => a # "shown"

\* ---- texts, as sequences of characters
UpperCase == <<"A","B","C","D","E","F","G","H","I","J","K","L","M",
               "N","O","P","Q","R","S","T","U","V","W","X","Y","Z">>
LowerCase == <<"a","b","c","d","e","f","g","h","i","j","k","l","m",
               "n","o","p","q","r","s","t","u","v","w","x","y","z">>
Lower(ch) ==
  IF \E i \in 1..Len(UpperCase) : UpperCase[i] = ch
    THEN LowerCase[CHOOSE i \in 1..Len(UpperCase) : UpperCase[i] = ch]
    ELSE ch
RECURSIVE TrimStart(_)
TrimStart(t) == IF t # <<>> /\ Head(t) = " " THEN TrimStart(Tail(t)) ELSE t
RECURSIVE TrimEnd(_)
TrimEnd(t) ==
  IF t # <<>> /\ t[Len(t)] = " " THEN TrimEnd(SubSeq(t, 1, Len(t) - 1)) ELSE t
\* String.prototype.trim
Trim(t) == TrimEnd(TrimStart(t))
\* /thank you/i.test(t)
MatchesThankYou(t) ==
  \E i \in 1..(Len(t) - 8) :
    \A j \in 1..9 :
      Lower(t[i + j - 1]) = <<"t","h","a","n","k"," ","y","o","u">>[j]

\* what alertBox.textContent() can resolve with
RawTexts ==
  {<<>>,
   <<" ", " ">>,
   <<" ", "F", "i", "l", "l", " ", "o", "u", "t", " ", "N", "a", "m", "e", " ">>,
   <<"T", "h", "a", "n", "k", " ", "y", "o", "u", "!">>,
   <<" ", "T", "H", "A", "N", "K", " ", "Y", "O", "U", " ">>,
   <<"t", "h", "a", "n", "k", " ", " ", "y", "o", "u">>}
\* what the page does while waitForAlertMessage runs: the alert appears
\* within the timeout or not, and reading its text rejects, yields null or
\* yields a text
AlertObservations ==
  [appeared : BOOLEAN, read : {"rejects", "null", "text"}, text : RawTexts]
NoObservation == [appeared |-> FALSE, read |-> "null", text |-> <<>>]
NullMessage == [isNull |-> TRUE, text |-> <<>>]
\* waitForAlertMessage: try { waitFor visible; textContent()?.trim() || null }
\* catch { null }
WaitForAlertMessage(obs) ==
  IF ~obs.appeared \/ obs.read # "text" \/ Trim(obs.text) = <<>>
    THEN NullMessage
    ELSE [isNull |-> FALSE, text |-> Trim(obs.text)]
\* initiallyVisible && stillVisible && !!alertMessage && preventedSuccess
ValidationWorks(initiallyVisible, stillVisible, alertMessage) ==
  LET preventedSuccess ==
        ~(~alertMessage.isNull /\ MatchesThankYou(alertMessage.text))
  IN initiallyVisible /\ stillVisible /\ ~alertMessage.isNull /\ preventedSuccess

\* ---- DemoblazeHomePage.addToCart
HStart(script) ==
  /\ hpc = "idle"
  /\ kpc = "idle"
  /\ fpc = "idle"
  /\ hpc' = "click"
  /\ vscript' = script
  /\ UNCHANGED <<now, alert, kpc, kinit, kobs, kalert, kstill, kret, kerr,
                 wvars, rvars, cvars, avars, svars, zvars>>

\* await this.addToCartButton.click() resolved; the page raises the alert,
\* which may be on screen already or not yet
HClickOk(a) ==
  /\ hpc = "click"
  /\ hpc' = "wait"
  /\ alert' = a
  /\ UNCHANGED <<now, vscript, kpc, kinit, kobs, kalert, kstill, kret, kerr,
                 wvars, rvars, cvars, avars, svars, zvars>>

\* the click rejected: the error leaves addToCart
HClickFail ==
  /\ hpc = "click"
  /\ hpc' = "failed"
  /\ UNCHANGED <<now, vscript, alert, kpc, kinit, kobs, kalert, kstill, kret,
                 kerr, wvars, rvars, cvars, avars, svars, zvars>>

\* waitForAlertToDisappear calls WaitHelper.waitForCondition
HWaitStart ==
  /\ hpc = "wait"
  /\ WStart(SiteTimeout, SitePoll, ToCondition("alertBox", vscript))

\* the wait resolved or failed; its error is not caught
HWaitEnd ==
  /\ hpc = "wait"
  /\ WDone
  /\ hpc' = IF wpc = "returned" THEN "returned" ELSE "failed"
  /\ UNCHANGED <<now, vscript, alert, kpc, kinit, kobs, kalert, kstill, kret,
                 kerr, wvars, rvars, cvars, avars, svars, zvars>>

\* the page shows the alert
AlertShow ==
  /\ alert = "pending"
  /\ alert' = "shown"
  /\ UNCHANGED <<now, vscript, hpc, kpc, kinit, kobs, kalert, kstill, kret,
                 kerr, wvars, rvars, cvars, avars, svars, zvars>>

\* the page hides the alert
AlertHide ==
  /\ alert = "shown"
  /\ alert' = "hidden"
  /\ UNCHANGED <<now, vscript, hpc, kpc, kinit, kobs, kalert, kstill, kret,
                 kerr, wvars, rvars, cvars, avars, svars, zvars>>

\* ---- DemoblazeCartPage.submitEmptyCheckoutAndVerifyValidation
KStart(script) ==
  /\ kpc = "idle"
  /\ hpc = "idle"
  /\ fpc = "idle"
  /\ kpc' = "init"
  /\ vscript' = script
  /\ UNCHANGED <<now, hpc, alert, kinit, kobs, kalert, kstill, kret, kerr,
                 wvars, rvars, cvars, avars, svars, zvars>>

\* const initiallyVisible = await this.isOrderModalVisible()
KInit(v) ==
  /\ kpc = "init"
  /\ kinit' = (ModalCond(v) = "true")
  /\ kpc' = "click"
  /\ UNCHANGED <<now, vscript, hpc, alert, kobs, kalert, kstill, kret, kerr,
                 wvars, rvars, cvars, avars, svars, zvars>>

\* await this.purchaseButton.click() resolved
KClickOk ==
  /\ kpc = "click"
  /\ kpc' = "alert"
  /\ UNCHANGED <<now, vscript, hpc, alert, kinit, kobs, kalert, kstill, kret,
                 kerr, wvars, rvars, cvars, avars, svars, zvars>>

\* the click rejected: nothing catches it, the call fails
KClickFail ==
  /\ kpc = "click"
  /\ kpc' = "failed"
  /\ kerr' = "click"
  /\ UNCHANGED <<now, vscript, hpc, alert, kinit, kobs, kalert, kstill, kret,
                 wvars, rvars, cvars, avars, svars, zvars>>

\* const alertMessage = await this.waitForAlertMessage()
KAlert(obs) ==
  /\ kpc = "alert"
  /\ kobs' = obs
  /\ kalert' = WaitForAlertMessage(obs)
  /\ kpc' = "wait"
  /\ UNCHANGED <<now, vscript, hpc, alert, kinit, kstill, kret, kerr,
                 wvars, rvars, cvars, avars, svars, zvars>>

\* waitForOrderModalVisible calls WaitHelper.waitForCondition
KWaitStart ==
  /\ kpc = "wait"
  /\ WStart(SiteTimeout, SitePoll, ToCondition("orderModal", vscript))

\* mutant: the timeout of the wait is not caught
KWaitEndPropagates ==
  /\ kpc = "wait"
  /\ WDone
  /\ kpc' = IF wpc = "returned" THEN "still" ELSE "failed"
  /\ UNCHANGED <<now, vscript, hpc, alert, kinit, kobs, kalert, kstill, kret,
                 kerr, wvars, rvars, cvars, avars, svars, zvars>>
\* await this.waitForOrderModalVisible().catch(() => undefined)
KWaitEnd ==
  /\ kpc = "wait"
  /\ WDone
  /\ kpc' = "still"
  /\ UNCHANGED <<now, vscript, hpc, alert, kinit, kobs, kalert, kstill, kret,
                 kerr, wvars, rvars, cvars, avars, svars, zvars>>

\* const stillVisible = await this.isOrderModalVisible(); compute; return
KStill(v) ==
  /\ kpc = "still"
  /\ kstill' = (ModalCond(v) = "true")
  /\ kret' = <<[validationWorks |->
                  ValidationWorks(kinit, ModalCond(v) = "true", kalert),
                alertMessage |-> kalert]>>
  /\ kpc' = "returned"
  /\ UNCHANGED <<now, vscript, hpc, alert, kinit, kobs, kalert, kerr,
                 wvars, rvars, cvars, avars, svars, zvars>>

\* ---- DemoblazeCartPage.verifyFormValidationOnEmptySubmit
FStart(script) ==
  /\ fpc = "idle"
  /\ hpc = "idle"
  /\ kpc = "idle"
  /\ fpc' = "init"
  /\ vscript' = script
  /\ UNCHANGED <<now, hpc, alert, kpc, kinit, kobs, kalert, kstill, kret, kerr,
                 finit, fstill, fret, ferr, evars, dvars,
                 wvars, rvars, cvars, avars, svars>>

\* const initiallyVisible = await this.isOrderModalVisible()
FInit(v) ==
  /\ fpc = "init"
  /\ finit' = (ModalCond(v) = "true")
  /\ fpc' = "click"
  /\ UNCHANGED <<now, pvars, fstill, fret, ferr, evars, dvars,
                 wvars, rvars, cvars, avars, svars>>

\* await this.purchaseButton.click() resolved
FClickOk ==
  /\ fpc = "click"
  /\ fpc' = "wait"
  /\ UNCHANGED <<now, pvars, finit, fstill, fret, ferr, evars, dvars,
                 wvars, rvars, cvars, avars, svars>>

\* the click rejected: nothing catches it, the call fails
FClickFail ==
  /\ fpc = "click"
  /\ fpc' = "failed"
  /\ ferr' = "click"
  /\ UNCHANGED <<now, pvars, finit, fstill, fret, evars, dvars,
                 wvars, rvars, cvars, avars, svars>>

\* await this.waitForOrderModalVisible() calls WaitHelper.waitForCondition
FWaitStart ==
  /\ fpc = "wait"
  /\ WStart(SiteTimeout, SitePoll, ToCondition("orderModal", vscript))

\* the wait resolved, or it failed: its error is not caught and leaves
\* the call
FWaitEnd ==
  /\ fpc = "wait"
  /\ WDone
  /\ IF wpc = "returned"
       THEN fpc' = "still" /\ UNCHANGED ferr
       ELSE fpc' = "failed" /\ ferr' = "timeout"
  /\ UNCHANGED <<now, pvars, finit, fstill, fret, evars, dvars,
                 wvars, rvars, cvars, avars, svars>>

\* const stillVisible = await this.isOrderModalVisible();
\* return initiallyVisible && stillVisible
FStill(v) ==
  /\ fpc = "still"
  /\ fstill' = (ModalCond(v) = "true")
  /\ fret' = <<finit /\ (ModalCond(v) = "true")>>
  /\ fpc' = "returned"
  /\ UNCHANGED <<now, pvars, finit, ferr, evars, dvars,
                 wvars, rvars, cvars, avars, svars>>

\* ---- the wait of either site
\* an evaluation of the site's condition settles with a true result
PCondTrue ==
  /\ hpc = "wait" => ShowsAlert(VOutcome(vscript, wcalls), alert)
  /\ WCondTrue

\* an evaluation of the site's condition settles with a false result
PCondFalse ==
  /\ hpc = "wait" => ShowsAlert(VOutcome(vscript, wcalls), alert)
  /\ WCondFalse

\* the clock advances; at the scale of one poll interval per clock value
\* the timers fire on time
PTick ==
  /\ wpc = "sleep" => now < wsleepUntil
  /\ WTick

\* ------------------------------------------------------ AccessibilityAudit
\* One AccessibilityAudit instance: auditPage / auditPageWithInclude run
\* runAudit, which awaits the axe scan; clear() empties both lists.
Contexts  == {"home", "cart"}
Selectors == {"#orderModal"}

\* the impact axe reports for a violation; it may be missing
RawImpacts == {"critical", "serious", "minor", Undefined}
RawViolations == [impact : RawImpacts]
\* what builder.analyze() resolves with: results.violations may be missing
ScanResults ==
  {[has |-> FALSE, violations |-> <<>>]} \cup
  {[has |-> TRUE, violations |-> v] :
     v \in UNION {[1..n -> RawViolations] : n \in 0..MaxViolations}}
\* what builder.analyze() rejects with: an Error, or any other thrown value
ThrownValues ==
  {[isError |-> TRUE,  message |-> "Target closed", text |-> "Error: Target closed"],
   [isError |-> TRUE,  message |-> "",              text |-> "Error"],
   [isError |-> FALSE, message |-> Undefined,       text |-> "boom"]}

\* results.violations || []
ViolationsOf(res) == IF res.has THEN res.violations ELSE <<>>
\* processViolations: impact: violation.impact || 'unknown', context
ProcessViolations(vs, ctx) ==
  [i \in 1..Len(vs) |->
     [impact  |-> IF vs[i].impact = Undefined THEN "unknown" ELSE vs[i].impact,
      context |-> ctx]]
\* processed.filter(v => v.impact === imp).length
CountImpact(vs, imp) == Cardinality({i \in 1..Len(vs) : vs[i].impact = imp})
\* error instanceof Error ? error.message : String(error)
ErrorText(e) == IF e.isError THEN e.message ELSE e.text

\* the auditResult built in the try block
AuditResultOf(ctx, processed) ==
  [context    |-> ctx,
   violations |-> processed,
   summary    |-> [total    |-> Len(processed),
                   critical |-> CountImpact(processed, "critical"),
                   serious  |-> CountImpact(processed, "serious"),
                   moderate |-> CountImpact(processed, "moderate"),
                   minor    |-> CountImpact(processed, "minor"),
                   passed   |-> Len(processed) = 0],
   passed     |-> Len(processed) = 0,
   error      |-> Undefined]
\* the errorResult built in the catch block
ErrorResultOf(ctx, e) ==
  [context    |-> ctx,
   violations |-> <<>>,
   summary    |-> [total |-> 0, critical |-> 0, serious |-> 0, moderate |-> 0,
                   minor |-> 0, passed |-> FALSE],
   passed     |-> FALSE,
   error      |-> ErrorText(e)]

\* getStatistics(): computed from this.violations and this.auditResults
GetStatistics ==
  [total           |-> Len(violations),
   critical        |-> CountImpact(violations, "critical"),
   serious         |-> CountImpact(violations, "serious"),
   moderate        |-> CountImpact(violations, "moderate"),
   minor           |-> CountImpact(violations, "minor"),
   auditsPerformed |-> Len(auditResults),
   passed          |-> Len(violations) = 0]

\* auditPage(context) / auditPageWithInclude(context, includeSelector)
AStart(ctx, sel) ==
  /\ apc = "idle"
  /\ Len(auditResults) < MaxAudits
  /\ apc' = "scan"
  /\ aargs' = [context |-> ctx, includeSelector |-> sel]
  /\ aret' = <<>>
  /\ UNCHANGED <<now, violations, auditResults, wvars, rvars, cvars, svars, pvars, zvars>>

\* mutant: the violations of the latest audit replace the accumulated ones
AScanOkReplaces(res) ==
  /\ apc = "scan"
  /\ LET processed == ProcessViolations(ViolationsOf(res), aargs.context)
         auditResult == AuditResultOf(aargs.context, processed)
     IN /\ auditResults' = Append(auditResults, auditResult)
        /\ violations' = processed
        /\ aret' = <<[kind |-> "resolved", scan |-> "ok", value |-> auditResult]>>
  /\ apc' = "idle"
  /\ UNCHANGED <<now, aargs, wvars, rvars, cvars, svars, pvars, zvars>>
\* builder.analyze() resolved: process, record, accumulate, return
AScanOk(res) ==
  /\ apc = "scan"
  /\ LET processed == ProcessViolations(ViolationsOf(res), aargs.context)
         auditResult == AuditResultOf(aargs.context, processed)
     IN /\ auditResults' = Append(auditResults, auditResult)
        /\ violations' = violations \o processed
        /\ aret' = <<[kind |-> "resolved", scan |-> "ok", value |-> auditResult]>>
  /\ apc' = "idle"
  /\ UNCHANGED <<now, aargs, wvars, rvars, cvars, svars, pvars, zvars>>

\* mutant: the catch block rethrows instead of returning an error result
AScanThrowsRethrow(e) ==
  /\ apc = "scan"
  /\ aret' = <<[kind |-> "rejected", scan |-> "threw",
               value |-> ErrorResultOf(aargs.context, e)]>>
  /\ apc' = "idle"
  /\ UNCHANGED <<now, violations, auditResults, aargs, wvars, rvars, cvars, svars, pvars, zvars>>
\* the scan threw: the catch block records and returns an error result
AScanThrows(e) ==
  /\ apc = "scan"
  /\ LET errorResult == ErrorResultOf(aargs.context, e)
     IN /\ auditResults' = Append(auditResults, errorResult)
        /\ aret' = <<[kind |-> "resolved", scan |-> "threw", value |-> errorResult]>>
  /\ apc' = "idle"
  /\ UNCHANGED <<now, violations, aargs, wvars, rvars, cvars, svars, pvars, zvars>>

\* clear(); on empty lists it changes nothing
AClear ==
  /\ Len(auditResults) > 0
  /\ violations' = <<>>
  /\ auditResults' = <<>>
  /\ UNCHANGED <<now, apc, aargs, aret, wvars, rvars, cvars, svars, pvars, zvars>>

\* ------------------------------------------------------ BasePage.safeClick
\* private static readonly DEFAULT_RETRIES = 3
DEFAULT_RETRIES == 3

\* options?.retries: absent, or a number
SafeClickOptions ==
  {[given |-> FALSE, retries |-> 0]} \cup
  {[given |-> TRUE, retries |-> n] : n \in -1..MaxClickRetries}
\* what one locator.click() does: resolve, or reject with an error
ClickOutcomes == {"ok", "E1", "E2"}
\* a locator: the outcome of its 1st, 2nd, ... click
ClickScripts == [1..MaxClickRetries -> ClickOutcomes]
\* the outcome of the i-th click
SOutcome(script, i) ==
  IF i \in DOMAIN script THEN script[i] ELSE script[Len(script)]
\* what page.waitForTimeout rejects with when the page is gone
WaitError == "EW"

\* const retries = options?.retries || BasePage.DEFAULT_RETRIES
SRetries(opt) ==
  IF ~opt.given \/ opt.retries = 0 THEN DEFAULT_RETRIES ELSE opt.retries

\* mutant: the loop stops one attempt early
SMoreAttemptsExclusive(a, r) == a < r
\* for (let attempt = 1; attempt <= retries; attempt++)
SMoreAttempts(a, r) == a <= r

SStart(opt, script) ==
  /\ spc = "idle"
  /\ spc' = "loop"
  /\ sopt' = opt
  /\ sretries' = SRetries(opt)
  /\ sattempt' = 1
  /\ sscript' = script
  /\ UNCHANGED <<now, sclicks, swaits, serr, wvars, rvars, cvars, avars, pvars, zvars>>

\* the loop test: click once more, or fall off the loop and return
SLoop ==
  /\ spc = "loop"
  /\ IF SMoreAttempts(sattempt, sretries)
       THEN spc' = "click" /\ sclicks' = sclicks + 1
       ELSE spc' = "returned" /\ UNCHANGED sclicks
  /\ UNCHANGED <<now, sopt, sretries, sattempt, swaits, sscript, serr,
                 wvars, rvars, cvars, avars, pvars, zvars>>

\* await locator.click(..) resolved: return
SClickOk ==
  /\ spc = "click"
  /\ SOutcome(sscript, sclicks) = "ok"
  /\ spc' = "returned"
  /\ UNCHANGED <<now, sopt, sretries, sattempt, sclicks, swaits, sscript, serr,
                 wvars, rvars, cvars, avars, pvars, zvars>>

\* mutant: the delay is awaited after every failed click, the last included
SClickFailWaitsFirst ==
  /\ spc = "click"
  /\ SOutcome(sscript, sclicks) # "ok"
  /\ spc' = "wait"
  /\ swaits' = swaits + 1
  /\ UNCHANGED <<now, sopt, sretries, sattempt, sclicks, sscript, serr,
                 wvars, rvars, cvars, avars, pvars, zvars>>
\* the click rejected: rethrow on the last attempt, else wait and go on
SClickFail ==
  /\ spc = "click"
  /\ SOutcome(sscript, sclicks) # "ok"
  /\ IF sattempt = sretries
       THEN /\ spc' = "failed"
            /\ serr' = SOutcome(sscript, sclicks)
            /\ UNCHANGED swaits
       ELSE /\ spc' = "wait"
            /\ swaits' = swaits + 1
            /\ UNCHANGED serr
  /\ UNCHANGED <<now, sopt, sretries, sattempt, sclicks, sscript,
                 wvars, rvars, cvars, avars, pvars, zvars>>

\* await this.page.waitForTimeout(RETRY_DELAY_MS) resolved: attempt++
SWaitDone ==
  /\ spc = "wait"
  /\ spc' = "loop"
  /\ sattempt' = sattempt + 1
  /\ UNCHANGED <<now, sopt, sretries, sclicks, swaits, sscript, serr,
                 wvars, rvars, cvars, avars, pvars, zvars>>

\* the wait rejected (the page was closed): it is awaited inside the catch
\* block, so its error leaves safeClick
SWaitRejects ==
  /\ spc = "wait"
  /\ spc' = "failed"
  /\ serr' = WaitError
  /\ UNCHANGED <<now, sopt, sretries, sattempt, sclicks, swaits, sscript,
                 wvars, rvars, cvars, avars, pvars, zvars>>

\* ------------------------------------ DemoblazeProductPage dialog wait
\* getAddToCartAlert / waitForDialogMessage: a promise that a once-listener
\* for 'dialog' and a timer both resolve.  The clock counts poll intervals
\* (100 ms), as for the other page objects.
\* setTimeout(() => resolve(''), 2000) of getAddToCartAlert
ALERT_TIMEOUT_MS == 2000
\* the timeouts the call sites use: 2000 ms, or the default SHORT_TIMEOUT_MS
DialogTimeouts ==
  {ALERT_TIMEOUT_MS \div DEFAULT_POLL_INTERVAL_MS, SiteTimeout}
\* dialog.message() of the dialogs the page may raise
DialogMessages == {"Product added", "Sign up successful.", ""}

\* mutant: a later resolve() overwrites the value of a settled promise
SettleLast(pc, cur, v) == v
\* resolve(v) of a promise: only the first call settles it
SettleValue(pc, cur, v) == IF pc = "pending" THEN v ELSE cur

\* the executor runs: page.once('dialog', ..) and setTimeout(.., timeoutMs)
DStart(t) ==
  /\ dpc = "idle"
  /\ dpc' = "pending"
  /\ dlistener' = TRUE
  /\ dtimer' = "armed"
  /\ ddue' = TimerDue(now, t)
  /\ UNCHANGED <<now, dvalue, devents, daccepted, dsettles,
                 wvars, rvars, cvars, avars, svars, pvars, fvars, evars>>

\* the page raises a dialog: the once-listener, if still registered, is
\* removed and runs resolve(dialog.message()); dialog.accept()
DDialog(msg) ==
  /\ dpc # "idle"
  /\ Len(SelectSeq(devents, LAMBDA e : e.kind = "dialog")) < MaxDialogs
  /\ devents' = Append(devents, [kind |-> "dialog", msg |-> msg])
  /\ IF dlistener
       THEN /\ dvalue' = SettleValue(dpc, dvalue, msg)
            /\ dpc' = "resolved"
            /\ dsettles' = dsettles + 1
            /\ daccepted' = daccepted + 1
            /\ dlistener' = FALSE
       ELSE UNCHANGED <<dvalue, dpc, dsettles, daccepted, dlistener>>
  /\ UNCHANGED <<now, dtimer, ddue,
                 wvars, rvars, cvars, avars, svars, pvars, fvars, evars>>

\* the timer, never cleared, fires at or after its due time: resolve('')
DTimerFire ==
  /\ dtimer = "armed"
  /\ now >= ddue
  /\ devents' = Append(devents, [kind |-> "timer", msg |-> ""])
  /\ dvalue' = SettleValue(dpc, dvalue, "")
  /\ dpc' = "resolved"
  /\ dsettles' = dsettles + 1
  /\ dtimer' = "fired"
  /\ UNCHANGED <<now, ddue, dlistener, daccepted,
                 wvars, rvars, cvars, avars, svars, pvars, fvars, evars>>

\* the clock advances while the timer is armed; the timer is at most
\* MaxLate late
DTick ==
  /\ dtimer = "armed"
  /\ now < ddue + MaxLate
  /\ now' = now + 1
  /\ UNCHANGED <<wvars, rvars, ovars>>

\* ------------------------------------------- the WaitHelper variants
\* One call made on each variant of WaitHelper under the same behaviour of
\* the caller's function and of the timers.  Here the clock counts
\* milliseconds.  A run is the list of invocations and sleeps with the clock
\* value each began at, and the outcome.
\* src/features/utils/WaitHelper.ts: timeoutMs = 5000, pollIntervalMs = 100,
\* maxRetries = 3
LiteralTimeoutMs  == 5000
LiteralPollMs     == 100
LiteralMaxRetries == 3
\* src/features/utils/AccessibilityAudit.ts: the named constants, and
\* maxRetries = 3
DEFAULT_TIMEOUT_MS == 5000
NamedMaxRetries    == 3
\* the documented variant: setTimeout(r, 100), no pollIntervalMs parameter
DocSleepMs == 100

\* an optional argument: left out, or a number
TimeoutArgs ==
  {[given |-> FALSE, ms |-> 0]} \cup
  {[given |-> TRUE, ms |-> t] : t \in {0, 250, 5000, 50 * MaxTimeout}}
PollArgs ==
  {[given |-> FALSE, ms |-> 0]} \cup
  {[given |-> TRUE, ms |-> p] : p \in {100, 150, 125 * MaxPoll}}
RetryArgs ==
  {[given |-> FALSE, n |-> 0]} \cup
  {[given |-> TRUE, n |-> m] : m \in RetryCounts}

\* the parameter defaults of the literal variant
LiteralTimeout(arg) == IF arg.given THEN arg.ms ELSE LiteralTimeoutMs
LiteralPoll(arg)    == IF arg.given THEN arg.ms ELSE LiteralPollMs
LiteralRetries(arg) == IF arg.given THEN arg.n ELSE LiteralMaxRetries
\* mutant: the default replaces every falsy argument, as with ||
NamedTimeoutOr(arg) ==
  IF arg.given /\ arg.ms # 0 THEN arg.ms ELSE DEFAULT_TIMEOUT_MS
\* the parameter defaults of the named-constants variant
NamedTimeout(arg) == IF arg.given THEN arg.ms ELSE DEFAULT_TIMEOUT_MS
NamedPoll(arg)    == IF arg.given THEN arg.ms ELSE DEFAULT_POLL_INTERVAL_MS
NamedRetries(arg) == IF arg.given THEN arg.n ELSE NamedMaxRetries

\* waitForCondition of WaitHelper.ts from the loop test on: n is the clock,
\* calls the invocations made, tr the run so far
\* (Len(tr) >= 0 is always true: it has the run evaluated at every turn
\* of the loop instead of all at once at the end)
RECURSIVE LWaitFrom(_, _, _, _, _, _, _)
LWaitFrom(env, start, timeoutMs, pollIntervalMs, n, calls, tr) ==
  IF Len(tr) >= 0 /\ WithinBudget(n, start, timeoutMs)
    THEN LET tr1 == Append(tr, [ev |-> "condition", at |-> n, ms |-> 0])
             n1  == n + env.lat
         IN CASE CondOutcome(env.cond, calls + 1) = "true" ->
                   [outcome |-> "returned", message |-> -1, run |-> tr1, end |-> n1]
              [] CondOutcome(env.cond, calls + 1) = "throw" ->
                   [outcome |-> "rejected", message |-> -1, run |-> tr1, end |-> n1]
              [] CondOutcome(env.cond, calls + 1) = "false" ->
                   LWaitFrom(env, start, timeoutMs, pollIntervalMs,
                             TimerDue(n1, pollIntervalMs) + env.late, calls + 1,
                             Append(tr1, [ev |-> "sleep", at |-> n1,
                                          ms |-> pollIntervalMs]))
    ELSE [outcome |-> "timeout", message |-> timeoutMs, run |-> tr, end |-> n]

\* waitForCondition of the named-constants variant
RECURSIVE NWaitFrom(_, _, _, _, _, _, _)
NWaitFrom(env, start, timeoutMs, pollIntervalMs, n, calls, tr) ==
  IF Len(tr) >= 0 /\ n - start < timeoutMs
    THEN LET tr1 == Append(tr, [ev |-> "condition", at |-> n, ms |-> 0])
             n1  == n + env.lat
         IN CASE CondOutcome(env.cond, calls + 1) = "true" ->
                   [outcome |-> "returned", message |-> -1, run |-> tr1, end |-> n1]
              [] CondOutcome(env.cond, calls + 1) = "throw" ->
                   [outcome |-> "rejected", message |-> -1, run |-> tr1, end |-> n1]
              [] CondOutcome(env.cond, calls + 1) = "false" ->
                   NWaitFrom(env, start, timeoutMs, pollIntervalMs,
                             n1 + pollIntervalMs + env.late, calls + 1,
                             Append(tr1, [ev |-> "sleep", at |-> n1,
                                          ms |-> pollIntervalMs]))
    ELSE [outcome |-> "timeout", message |-> timeoutMs, run |-> tr, end |-> n]

\* waitForCondition of the documented variant: the sleep is always 100 ms
RECURSIVE DocWaitFrom(_, _, _, _, _, _)
DocWaitFrom(env, start, timeoutMs, n, calls, tr) ==
  IF Len(tr) >= 0 /\ n - start < timeoutMs
    THEN LET tr1 == Append(tr, [ev |-> "condition", at |-> n, ms |-> 0])
             n1  == n + env.lat
         IN CASE CondOutcome(env.cond, calls + 1) = "true" ->
                   [outcome |-> "returned", message |-> -1, run |-> tr1, end |-> n1]
              [] CondOutcome(env.cond, calls + 1) = "throw" ->
                   [outcome |-> "rejected", message |-> -1, run |-> tr1, end |-> n1]
              [] CondOutcome(env.cond, calls + 1) = "false" ->
                   DocWaitFrom(env, start, timeoutMs,
                               n1 + DocSleepMs + env.late, calls + 1,
                               Append(tr1, [ev |-> "sleep", at |-> n1,
                                            ms |-> DocSleepMs]))
    ELSE [outcome |-> "timeout", message |-> timeoutMs, run |-> tr, end |-> n]

\* retryOperation of the named-constants variant from the loop test on
RECURSIVE NRetryFrom(_, _, _, _)
NRetryFrom(maxRetries, op, attempt_, lastError_) ==
  IF attempt_ < maxRetries
    THEN IF OpOutcome(op, attempt_ + 1) \in Results
           THEN [pc |-> "returned", out |-> OpOutcome(op, attempt_ + 1),
                 calls |-> attempt_ + 1]
           ELSE NRetryFrom(maxRetries, op, attempt_ + 1,
                           OpOutcome(op, attempt_ + 1))
    ELSE [pc |-> "failed", out |-> lastError_, calls |-> attempt_]

\* the same waitForCondition call made on either variant
ECallWait(t, p, c, lat, late) ==
  /\ ecall.fn = "none"
  /\ ecall' = [fn |-> "wait", timeout |-> t, poll |-> p,
               env |-> [cond |-> c, lat |-> lat, late |-> late]]
  /\ elit' = <<LWaitFrom(ecall'.env, now, LiteralTimeout(t), LiteralPoll(p),
                         now, 0, <<>>)>>
  /\ enam' = <<NWaitFrom(ecall'.env, now, NamedTimeout(t), NamedPoll(p),
                         now, 0, <<>>)>>
  /\ UNCHANGED <<now, wvars, rvars, cvars, avars, svars, pvars, fvars, dvars>>

\* the same retryOperation call made on either variant
ECallRetry(m, op) ==
  /\ ecall.fn = "none"
  /\ ecall' = [fn |-> "retry", maxRetries |-> m, op |-> op]
  /\ elit' = <<RetryAlone(LiteralRetries(m), op)>>
  /\ enam' = <<NRetryFrom(NamedRetries(m), op, 0, Undefined)>>
  /\ UNCHANGED <<now, wvars, rvars, cvars, avars, svars, pvars, fvars, dvars>>

Init ==
  /\ now \in 0..MaxStart
  /\ wpc = "idle"
  /\ wstart = 0
  /\ wtimeout = 0
  /\ wpoll = 1
  /\ wcond = [k |-> 0, term |-> "false"]
  /\ wcalls = 0
  /\ wsleeps = 0
  /\ wtrue = FALSE
  /\ wevalStart = 0
  /\ wlat = 0
  /\ wtotLat = 0
  /\ wsleepUntil = 0
  /\ wlate = 0
  /\ wtotLate = 0
  /\ werr = NoError
  /\ wend = 0
  /\ rpc = "idle"
  /\ rmax = 0
  /\ rop = <<>>
  /\ attempt = 0
  /\ rcalls = 0
  /\ lastError = Undefined
  /\ rresult = Undefined
  /\ rerr = RNoError
  /\ rend = 0
  /\ ropStart = 0
  /\ rsettled = 0
  /\ cst = [p \in Calls |-> IdleCall]
  /\ frames = [p \in Calls |-> EmptyFrame]
  /\ violations = <<>>
  /\ auditResults = <<>>
  /\ apc = "idle"
  /\ aargs = [context |-> "", includeSelector |-> Undefined]
  /\ aret = <<>>
  /\ spc = "idle"
  /\ sopt = [given |-> FALSE, retries |-> 0]
  /\ sretries = 0
  /\ sattempt = 0
  /\ sclicks = 0
  /\ swaits = 0
  /\ sscript = <<>>
  /\ serr = RNoError
  /\ vscript = <<>>
  /\ hpc = "idle"
  /\ alert = "none"
  /\ kpc = "idle"
  /\ kinit = FALSE
  /\ kobs = NoObservation
  /\ kalert = NullMessage
  /\ kstill = FALSE
  /\ kret = <<>>
  /\ kerr = "none"
  /\ fpc = "idle"
  /\ finit = FALSE
  /\ fstill = FALSE
  /\ fret = <<>>
  /\ ferr = "none"
  /\ ecall = [fn |-> "none"]
  /\ elit = <<>>
  /\ enam = <<>>
  /\ dpc = "idle"
  /\ dvalue = ""
  /\ dlistener = FALSE
  /\ dtimer = "none"
  /\ ddue = 0
  /\ devents = <<>>
  /\ daccepted = 0
  /\ dsettles = 0

NextWait ==
  \/ \E t \in Timeouts, p \in PollIntervals, c \in Conditions : WStart(t, p, c)
  \/ WCheck
  \/ WCondTrue
  \/ WCondFalse
  \/ WCondThrow
  \/ WWake
  \/ WTick

SpecWait == Init /\ [][NextWait]_vars

NextRetry ==
  \/ \E m \in RetryCounts, op \in Operations : RStart(m, op)
  \/ RLoop
  \/ ROpResolve
  \/ ROpReject
  \/ RTick

SpecRetry == Init /\ [][NextRetry]_vars

Next == NextWait \/ NextRetry

\* every invocation of operation completes and the synchronous code runs on
RetryFairness ==
  /\ WF_vars(RLoop)
  /\ WF_vars(ROpResolve)
  /\ WF_vars(ROpReject)

SpecRetryLive == Init /\ [][NextRetry]_vars /\ RetryFairness

NextAudit ==
  \/ \E ctx \in Contexts : AStart(ctx, Undefined)
  \/ \E ctx \in Contexts, sel \in Selectors : AStart(ctx, sel)
  \/ \E res \in ScanResults : AScanOk(res)
  \/ \E e \in ThrownValues : AScanThrows(e)
  \/ AClear

SpecAudit == Init /\ [][NextAudit]_vars

NextClick ==
  \/ \E opt \in SafeClickOptions, script \in ClickScripts : SStart(opt, script)
  \/ SLoop
  \/ SClickOk
  \/ SClickFail
  \/ SWaitDone
  \/ SWaitRejects

SpecClick == Init /\ [][NextClick]_vars

NextPages ==
  \/ \E script \in VisScripts : HStart(script)
  \/ \E a \in {"pending", "shown"} : HClickOk(a)
  \/ HClickFail
  \/ HWaitStart
  \/ HWaitEnd
  \/ AlertShow
  \/ AlertHide
  \/ \E script \in VisScripts : KStart(script)
  \/ \E v \in VisOutcomes : KInit(v)
  \/ KClickOk
  \/ KClickFail
  \/ \E obs \in AlertObservations : KAlert(obs)
  \/ KWaitStart
  \/ KWaitEnd
  \/ \E v \in VisOutcomes : KStill(v)
  \/ WCheck
  \/ PCondTrue
  \/ PCondFalse
  \/ WWake
  \/ PTick

SpecPages == Init /\ [][NextPages]_vars

\* verifyFormValidationOnEmptySubmit and the wait it calls
NextForm ==
  \/ \E script \in VisScripts : FStart(script)
  \/ \E v \in VisOutcomes : FInit(v)
  \/ FClickOk
  \/ FClickFail
  \/ FWaitStart
  \/ FWaitEnd
  \/ \E v \in VisOutcomes : FStill(v)
  \/ WCheck
  \/ PCondTrue
  \/ PCondFalse
  \/ WWake
  \/ PTick

SpecForm == Init /\ [][NextForm]_vars

NextWaitLive ==
  \/ \E t \in Timeouts, p \in LivePolls, c \in Conditions : WStart(t, p, c)
  \/ WCheck
  \/ WCondTrue
  \/ WCondFalse
  \/ WCondThrow
  \/ WWakeLive
  \/ WTickLive

\* every evaluation of condition completes, every timer fires, the
\* synchronous code runs on and the clock keeps advancing
WaitFairness ==
  /\ WF_vars(WCheck)
  /\ WF_vars(WCondTrue)
  /\ WF_vars(WCondFalse)
  /\ WF_vars(WCondThrow)
  /\ WF_vars(WWakeLive)
  /\ WF_vars(WTickLive)

SpecWaitLive == Init /\ [][NextWaitLive]_vars /\ WaitFairness

NextConc ==
  \/ \E p \in Calls, t \in ConcTimeouts, pl \in ConcPolls, c \in ConcConds :
       CStartWait(p, t, pl, c)
  \/ \E p \in Calls, m \in ConcRetries, op \in ConcOps : CStartRetry(p, m, op)
  \/ \E p \in Calls : CCheck(p)
  \/ \E p \in Calls : CCondTrue(p)
  \/ \E p \in Calls : CCondFalse(p)
  \/ \E p \in Calls : CCondThrow(p)
  \/ \E p \in Calls : CWake(p)
  \/ \E p \in Calls : CLoop(p)
  \/ \E p \in Calls : COpResolve(p)
  \/ \E p \in Calls : COpReject(p)
  \/ CTick

SpecConc == Init /\ [][NextConc]_vars

NextDialog ==
  \/ \E t \in DialogTimeouts : DStart(t)
  \/ \E msg \in DialogMessages : DDialog(msg)
  \/ DTimerFire
  \/ DTick

\* the event loop runs the timer callback once it is due
SpecDialog ==
  Init /\ [][NextDialog]_vars /\ WF_vars(DTick) /\ WF_vars(DTimerFire)

\* one condition() takes lat milliseconds, a timer fires late milliseconds
\* after its delay
NextEquiv ==
  \/ \E t \in TimeoutArgs, p \in PollArgs, c \in Conditions,
        lat \in {0, 30 * MaxLat}, late \in {0, 2 * MaxLate} :
          ECallWait(t, p, c, lat, late)
  \/ \E m \in RetryArgs, op \in Operations : ECallRetry(m, op)

SpecEquiv == Init /\ [][NextEquiv]_vars

Spec == Init /\ [][Next]_vars

\* ================================================================ claims
\* clock time the waitForCondition call took
WElapsed == wend - wstart
\* the call failed with the timeout error
WTimedOut == wpc = "failed" /\ werr.kind = "timeout"

\* C1 (as stated): a condition that is false k times and then true, with
\* k * pollInterval < timeout, makes waitForCondition succeed after exactly
\* k+1 invocations.
C1_AsStated ==
  (WDone /\ wcond.term = "true" /\ wcond.k * wpoll < wtimeout)
    => (wpc = "returned" /\ wcalls = wcond.k + 1)

\* C1 (amended): for a condition that is false k times and then true, the
\* call either succeeds after exactly k+1 invocations, or it times out
\* before invocation k+1 and then the poll intervals slept so far plus the
\* time the evaluations took plus the lateness of the timers had already
\* reached the timeout.  So k * pollInterval + evaluation time + timer
\* lateness < timeout guarantees success after exactly k+1 invocations.
C1_Amended ==
  (WDone /\ wcond.term = "true")
    => \/ wpc = "returned" /\ wcalls = wcond.k + 1
       \/ /\ WTimedOut
          /\ wcalls <= wcond.k
          /\ wcalls * wpoll + wtotLat + wtotLate >= wtimeout

\* the spec's scenario shape: three false results, then success on the 4th
\* invocation, after evaluations that took time
C1_Witness ==
  /\ wpc = "returned"
  /\ wcond.k = 3
  /\ wcalls = 4
  /\ wtotLat > 0

\* C2: when the first evaluation yields true the call resolves after exactly
\* one invocation and no sleep; the first invocation is made at the start
\* time of the call, with no sleep before it.
C2_FastPath ==
  /\ (wcalls = 1 /\ wpc = "eval") => (wsleeps = 0 /\ wevalStart = wstart)
  /\ (wcalls >= 1 /\ CondOutcome(wcond, 1) = "true")
       => /\ wcalls = 1
          /\ wsleeps = 0
          /\ wpc \in {"eval", "returned"}
          /\ wpc = "returned" => wend = wevalStart + wlat

C2_Witness ==
  /\ wpc = "returned"
  /\ CondOutcome(wcond, 1) = "true"
  /\ wcalls = 1
  /\ wlat > 0

\* C3 (as stated): with an always-false condition the call fails with the
\* timeout error after at least timeout and at most timeout + the latency
\* of one evaluation + one pollInterval.
C3_AsStated ==
  (wpc = "failed" /\ wcond.term = "false")
    => /\ WTimedOut
       /\ WElapsed >= wtimeout
       /\ WElapsed <= wtimeout + wlat + wpoll

\* C3 (amended): with an always-false condition the call fails with the
\* timeout error after at least timeout and at most timeout + the latency
\* of the last evaluation + one pollInterval + the lateness of the last
\* poll timer.
C3_Amended ==
  (wpc = "failed" /\ wcond.term = "false")
    => /\ WTimedOut
       /\ WElapsed >= wtimeout
       /\ WElapsed <= wtimeout + wlat + wpoll + wlate

\* a timeout after several polls, with a late last timer
C3_Witness ==
  /\ WTimedOut
  /\ wcond.term = "false"
  /\ wcalls >= 2
  /\ wlate > 0
  /\ WElapsed > wtimeout

\* C4 (as stated): with timeout = 0 the condition is checked exactly once,
\* and when that check is false the call fails without sleeping.
C4_AsStated ==
  (WDone /\ wtimeout = 0)
    => /\ wcalls = 1
       /\ CondOutcome(wcond, 1) = "false" => (wpc = "failed" /\ wsleeps = 0)

\* C5: the call fails with the timeout error only when no evaluation yielded
\* true and the elapsed time has reached the timeout, and that error carries
\* the timeoutMs argument.
C5_TimeoutOnly ==
  WTimedOut
    => /\ ~wtrue
       /\ WElapsed >= wtimeout
       /\ werr = TimeoutError(wtimeout)
       /\ \A i \in 1..wcalls : CondOutcome(wcond, i) = "false"

\* a timeout whose elapsed time differs from the configured timeout
C5_Witness ==
  /\ WTimedOut
  /\ wcalls >= 1
  /\ WElapsed > wtimeout
  /\ werr.ms = wtimeout

\* C6: once an evaluation of condition has rejected, the call has failed with
\* that error at that moment: no later invocation, no sleep after it, and the
\* error is not the timeout error.
C6_ThrowPropagates ==
  /\ wcond.term = "throw" => wcalls <= wcond.k + 1
  /\ (wcalls >= 1 /\ wpc # "eval" /\ CondOutcome(wcond, wcalls) = "throw")
       => /\ wpc = "failed"
          /\ werr = CondError(wcond)
          /\ wsleeps = wcalls - 1
          /\ wend = wevalStart + wlat

\* a condition that rejects on a later poll, within the budget
C6_Witness ==
  /\ wpc = "failed"
  /\ werr.kind = "condition"
  /\ wcalls >= 2
  /\ wend - wstart < wtimeout

\* operation op rejects on each of its first n invocations
AllFail(op, n) == \A i \in 1..n : OpOutcome(op, i) \in Errors

\* C7: when operation rejects with the same error E on every invocation and
\* maxAttempts >= 1, the call invokes it exactly maxAttempts times and then
\* fails with E; it never invokes it more often.
C7_Exhaustion ==
  (rmax >= 1 /\ AllFail(rop, rmax)
     /\ \A i \in 1..rmax : OpOutcome(rop, i) = OpOutcome(rop, 1))
    => /\ rcalls <= rmax
       /\ rpc # "returned"
       /\ rpc = "failed" => (rcalls = rmax /\ rerr = OpOutcome(rop, 1))

C7_Witness ==
  /\ rpc = "failed"
  /\ rmax = 3
  /\ rcalls = 3
  /\ \A i \in 1..3 : OpOutcome(rop, i) = "E2"
  /\ rerr = "E2"

C7_WitnessOne ==
  /\ rpc = "failed"
  /\ rmax = 1
  /\ rcalls = 1
  /\ rerr = OpOutcome(rop, 1)

\* C8: when operation rejects on its first k invocations, k < maxAttempts,
\* and resolves with R on invocation k+1, the call resolves with R after
\* exactly k+1 invocations, and no invocation follows the success.
C8_EventualSuccess ==
  \A k \in 0..(rmax - 1) :
    (AllFail(rop, k) /\ OpOutcome(rop, k + 1) \in Results)
      => /\ rcalls <= k + 1
         /\ rpc # "failed"
         /\ rpc = "returned" => (rcalls = k + 1 /\ rresult = OpOutcome(rop, k + 1))

\* success on the last allowed attempt, with a different result available
\* on a later invocation
C8_Witness ==
  /\ rpc = "returned"
  /\ rmax = 3
  /\ rcalls = 3
  /\ AllFail(rop, 2)
  /\ rresult = OpOutcome(rop, 3)

\* C9: when all maxAttempts attempts reject with pairwise distinct errors,
\* the call fails with exactly the error of the last attempt.
C9_LastError ==
  (rpc = "failed" /\ rmax >= 1 /\ AllFail(rop, rmax)
     /\ \A i, j \in 1..rmax : i # j => OpOutcome(rop, i) # OpOutcome(rop, j))
    => /\ rerr = OpOutcome(rop, rmax)
       /\ \A i \in 1..(rmax - 1) : rerr # OpOutcome(rop, i)

C9_Witness ==
  /\ rpc = "failed"
  /\ rmax = 3
  /\ OpOutcome(rop, 1) = "E3"
  /\ OpOutcome(rop, 2) = "E1"
  /\ OpOutcome(rop, 3) = "E2"
  /\ rerr = "E2"

\* C10: no delay between attempts: every invocation after the first is made
\* at the clock value at which the previous one rejected, and the final
\* failure is raised at the clock value at which the last one rejected.
C10_NoDelay ==
  /\ (rpc = "op" /\ rcalls >= 2) => ropStart = rsettled
  /\ (rpc = "failed" /\ rcalls >= 1) => rend = rsettled

\* a retry made after an invocation that took time to reject
C10_Witness ==
  /\ rpc = "op"
  /\ rcalls = 2
  /\ rsettled > 0
  /\ ropStart = rsettled

\* the concurrent call p has resolved or failed
CDone(p) == cst[p].pc \in {"returned", "failed"}

\* C11: calls running concurrently do not affect each other.  Under every
\* interleaving a retryOperation call ends with the outcome, value and
\* number of invocations it produces on its own for its operation and
\* maxRetries, and a waitForCondition call invokes condition only within
\* its own budget and ends as its own condition, timeout and elapsed time
\* determine.
C11_Independent ==
  \A p \in Calls :
    LET s == cst[p] IN
    /\ s.kind = "retry" =>
         /\ s.calls <= RetryAlone(s.m, s.op).calls
         /\ CDone(p) => [pc |-> s.pc, out |-> s.out, calls |-> s.calls]
                          = RetryAlone(s.m, s.op)
    /\ s.kind = "wait" =>
         /\ s.pc = "eval" => s.at - s.began < s.t
         /\ s.pc = "returned" => (s.c.term = "true" /\ s.calls = s.c.k + 1)
         /\ s.pc = "failed" =>
              IF s.out.kind = "timeout"
                THEN /\ s.out = TimeoutError(s.t)
                     /\ s.ended - s.began >= s.t
                     /\ \A i \in 1..s.calls : CondOutcome(s.c, i) = "false"
                ELSE /\ s.out = CondError(s.c)
                     /\ s.c.term = "throw"
                     /\ s.calls = s.c.k + 1

\* a waitForCondition call and a retryOperation call that overlapped in
\* time, each with more than one invocation
C11_Witness ==
  /\ cst["A"].kind = "wait"
  /\ cst["B"].kind = "retry"
  /\ CDone("A")
  /\ CDone("B")
  /\ cst["A"].began < cst["B"].ended
  /\ cst["B"].began < cst["A"].ended
  /\ cst["A"].calls >= 2
  /\ cst["B"].calls >= 2

\* C12: every waitForCondition call whose evaluations each complete
\* eventually resolves or fails while the clock keeps advancing, whatever
\* the pollInterval is, zero and negative values included: it never polls
\* forever.
C12_Terminates == (wpc # "idle") ~> WDone

\* a call with a negative pollInterval that polled several times and ended
\* by timeout
C12_Witness ==
  /\ wpoll < 0
  /\ WTimedOut
  /\ wcalls >= 3
  /\ wtimeout >= 2

\* a call with pollInterval 0 that polled several times within one clock
\* value
C12_WitnessZero ==
  /\ wpoll = 0
  /\ WDone
  /\ wcalls >= 3
  /\ wsleeps > WElapsed

\* C13: retryOperation is bounded by the attempt count alone.  It never
\* makes more than maxAttempts invocations; an invocation ends only with
\* the operation's own outcome, however long it took (it is never cut short
\* or counted as failed by a timeout); and provided each invocation
\* completes, the call resolves or fails.
C13_AttemptBound ==
  /\ [](rmax >= 0 => rcalls <= rmax)
  /\ [][(rpc = "op" /\ rpc' # "op")
          => IF OpOutcome(rop, rcalls) \in Results
               THEN rpc' = "returned" /\ rresult' = OpOutcome(rop, rcalls)
               ELSE rpc' = "loop" /\ lastError' = OpOutcome(rop, rcalls)]_vars
  /\ ((rpc # "idle") ~> RDone)

\* the call resolved on its last attempt, with an invocation that took the
\* longest time an invocation takes
C13_Witness ==
  /\ rpc = "returned"
  /\ rcalls = rmax
  /\ rcalls >= 2
  /\ rend - ropStart = MaxLat

\* C14: auditPage and auditPageWithInclude always resolve with an
\* AuditResult and never reject, and the result is appended to the recorded
\* audit results.  When the scan reported violations the result carries
\* them and has passed = false; when the scanner threw, the result has
\* passed = false, an error message and no violations, and the accumulated
\* violations are left unchanged.
C14_NonBlocking ==
  [][(apc = "scan" /\ apc' = "idle")
       => /\ Len(aret') = 1
          /\ aret'[1].kind = "resolved"
          /\ auditResults' = Append(auditResults, aret'[1].value)
          /\ aret'[1].scan = "ok"
               => /\ aret'[1].value.passed = (Len(aret'[1].value.violations) = 0)
                  /\ violations' = violations \o aret'[1].value.violations
          /\ aret'[1].scan = "threw"
               => /\ aret'[1].value.passed = FALSE
                  /\ aret'[1].value.error # Undefined
                  /\ aret'[1].value.violations = <<>>
                  /\ violations' = violations]_vars

\* an audit that reported violations, followed by an audit whose scan threw
C14_Witness ==
  /\ Len(aret) = 1
  /\ aret[1].kind = "resolved"
  /\ aret[1].scan = "threw"
  /\ Len(auditResults) = 2
  /\ auditResults[1].summary.total >= 1
  /\ auditResults[2] = aret[1].value
  /\ Len(violations) = auditResults[1].summary.total

\* C15: safeClick with retries n >= 1 (3 when no retries option is given)
\* clicks at most n times, makes no attempt after a successful one and
\* returns on it, and after n failed attempts fails with the error of the
\* n-th attempt.
C15_SafeClick ==
  (spc # "idle" /\ (~sopt.given \/ sopt.retries >= 1))
    => LET n == IF sopt.given THEN sopt.retries ELSE 3
       IN /\ sclicks <= n
          /\ \A i \in 1..(sclicks - 1) : SOutcome(sscript, i) # "ok"
          /\ spc = "returned"
               => (sclicks >= 1 /\ SOutcome(sscript, sclicks) = "ok")
          /\ (sclicks >= 1 /\ spc # "click" /\ SOutcome(sscript, sclicks) = "ok")
               => spc = "returned"
          /\ (sclicks = n /\ spc # "click" /\ SOutcome(sscript, n) # "ok")
               => (spc = "failed" /\ serr = SOutcome(sscript, n))
          /\ (spc = "failed" /\ serr # WaitError)
               => (sclicks = n /\ serr = SOutcome(sscript, n))

\* no retries option: three failed clicks, the call fails with the third
\* error
C15_Witness ==
  /\ ~sopt.given
  /\ spc = "failed"
  /\ sclicks = 3
  /\ SOutcome(sscript, 1) = "E1"
  /\ SOutcome(sscript, 3) = "E2"
  /\ serr = "E2"

\* retries: 4, success on the second attempt
C15_WitnessSuccess ==
  /\ sopt.given
  /\ sopt.retries = 4
  /\ spc = "returned"
  /\ sclicks = 2

\* C17: the elapsed-time check precedes every evaluation of condition, the
\* first one and each one after a sleep: condition is never invoked at a
\* point where the time elapsed since the call started has reached the
\* timeout.
C17_CheckBeforeEval ==
  /\ wcalls >= 1 => wevalStart - wstart < wtimeout
  /\ wpc = "eval" => (wevalStart <= now /\ wevalStart - wstart < wtimeout)
  /\ wtimeout = 0 => wcalls = 0

\* an evaluation made after a sleep at the last clock value inside the
\* budget
C17_Witness ==
  /\ wpc = "eval"
  /\ wcalls >= 2
  /\ wsleeps >= 1
  /\ now = wevalStart
  /\ wevalStart - wstart = wtimeout - 1

\* C18: in every state of a retryOperation call with maxAttempts = n, the
\* attempt counter is never negative and never exceeds n, and operation has
\* been invoked at most n times.
C18_AttemptBounds ==
  (rpc # "idle" /\ rmax >= 0)
    => /\ attempt >= 0
       /\ attempt <= rmax
       /\ rcalls <= rmax

\* all attempts used: the counter has reached n = 3
C18_Witness ==
  /\ rpc = "failed"
  /\ rmax = 3
  /\ attempt = 3
  /\ rcalls = 3

\* the alert texts of the model that are non-empty once trimmed and do not
\* contain "thank you" in any letter case
PlainAlertTexts ==
  {<<" ", "F", "i", "l", "l", " ", "o", "u", "t", " ", "N", "a", "m", "e", " ">>,
   <<"t", "h", "a", "n", "k", " ", " ", "y", "o", "u">>}

\* the result submitEmptyCheckoutAndVerifyValidation must return: the modal
\* was visible before the submit, is visible after the wait, and an alert
\* with a plain text was captured
C16_Expected ==
  /\ kinit
  /\ kstill
  /\ kobs.appeared
  /\ kobs.read = "text"
  /\ kobs.text \in PlainAlertTexts

\* C16 (as stated): submitEmptyCheckoutAndVerifyValidation always returns a
\* result, and validationWorks is true exactly when the order modal was
\* visible before the submit, is visible after the wait, and a non-empty
\* alert message not matching "thank you" was captured.
C16_AsStated ==
  /\ kpc # "failed"
  /\ kpc = "returned"
       => (Len(kret) = 1 /\ kret[1].validationWorks = C16_Expected)

\* C16 (amended): the call fails only when the submit click itself
\* rejects; once the click has succeeded it always returns a result, also
\* when its internal wait for the order modal times out, and
\* validationWorks is true exactly when the order modal was visible before
\* the submit, is visible after the wait, and a non-empty alert message not
\* matching "thank you" was captured.
C16_Amended ==
  /\ kpc = "failed" => (kerr = "click" /\ wpc = "idle")
  /\ (kpc = "wait" /\ WDone) => ENABLED KWaitEnd
  /\ kpc = "returned"
       => /\ Len(kret) = 1
          /\ kret[1].validationWorks = C16_Expected
          /\ kret[1].alertMessage = kalert

\* a result returned after the internal wait timed out, with the modal
\* visible at first and an alert captured
C16_Witness ==
  /\ kpc = "returned"
  /\ WTimedOut
  /\ kinit
  /\ ~kalert.isNull
  /\ ~kret[1].validationWorks

\* a result with validationWorks = true
C16_WitnessWorks ==
  /\ kpc = "returned"
  /\ wpc = "returned"
  /\ wcalls >= 2
  /\ kret[1].validationWorks

\* C19 (as stated): at the call sites that swallow errors of the visibility
\* check, a check that throws is turned into a false condition result, so
\* waitForCondition keeps polling: it neither succeeds nor fails on that
\* check.
C19_AsStated ==
  (wcalls >= 1 /\ wpc \in {"sleep", "check", "returned", "failed"}
     /\ VOutcome(vscript, wcalls) = "throw")
    => /\ CondOutcome(wcond, wcalls) = "false"
       /\ wpc # "returned"
       /\ wpc = "failed" => WTimedOut

\* C20 (as stated): whenever addToCart returns successfully, the alert
\* raised by its click has appeared and has then become not visible.
C20_AsStated == hpc = "returned" => alert = "hidden"

\* C21 (as stated): verifyFormValidationOnEmptySubmit completes with a
\* boolean, true exactly when the order modal is visible both before and
\* after the submit click; once the submit click has been made it does not
\* fail with an error, in particular not when the modal is no longer
\* visible after the submit.
C21_AsStated ==
  /\ fpc = "returned" => (Len(fret) = 1 /\ fret[1] = (finit /\ fstill))
  /\ fpc = "failed" => ferr = "click"
  /\ (fpc = "wait" /\ WDone) => wpc = "returned"

\* C24 (as stated): whenever retryOperation fails, it fails with an error
\* thrown by one of its own invocations of operation, and operation was
\* invoked at least once, whatever maxRetries is (0 and negative included).
C24_AsStated ==
  rpc = "failed" =>
    /\ rcalls >= 1
    /\ rerr \in Errors
    /\ \E i \in 1..rcalls : rerr = OpOutcome(rop, i)

\* C25 (as stated): safeClick resolves only if one of its click attempts
\* succeeded, and it always makes at least one click attempt, whatever
\* options.retries is (0 and negative included).
C25_AsStated ==
  /\ spc = "returned" => (sclicks >= 1 /\ SOutcome(sscript, sclicks) = "ok")
  /\ spc \in {"returned", "failed"} => sclicks >= 1

\* C26 (as stated): getStatistics().passed is true only if every audit
\* result recorded since construction or the last clear() has passed = true;
\* an audit that ended in a scanner error makes the statistics not passed.
C26_AsStated ==
  GetStatistics.passed =>
    \A i \in 1..Len(auditResults) : auditResults[i].passed

\* the sum of summary.total over a list of audit results
RECURSIVE SumTotals(_)
SumTotals(rs) ==
  IF rs = <<>> THEN 0 ELSE rs[1].summary.total + SumTotals(Tail(rs))

\* C27: getStatistics().auditsPerformed and .total are 0 at construction;
\* every audit that completes (errored ones included) adds one to
\* auditsPerformed and the summary.total of the result it returned to total;
\* clear() sets both to 0 and nothing else changes them, so total is always
\* the sum of summary.total over the results recorded since construction or
\* the last clear().
C27_Statistics ==
  /\ GetStatistics.auditsPerformed = 0 /\ GetStatistics.total = 0
  /\ [](GetStatistics.total = SumTotals(auditResults))
  /\ [][IF apc = "scan" /\ apc' = "idle"
          THEN /\ GetStatistics'.auditsPerformed = GetStatistics.auditsPerformed + 1
               /\ GetStatistics'.total =
                    GetStatistics.total + aret'[1].value.summary.total
          ELSE IF AClear
            THEN GetStatistics'.auditsPerformed = 0 /\ GetStatistics'.total = 0
            ELSE /\ GetStatistics'.auditsPerformed = GetStatistics.auditsPerformed
                 /\ GetStatistics'.total = GetStatistics.total]_vars
\* two audits are recorded, one errored and one that found a violation
C27_Witness ==
  /\ GetStatistics.auditsPerformed = 2
  /\ GetStatistics.total >= 1
  /\ \E i \in 1..2 : auditResults[i].error # Undefined
\* the statistics after a clear() that followed recorded audits
C27_WitnessCleared ==
  /\ Len(auditResults) = 0
  /\ Len(aret) = 1
  /\ apc = "idle"

\* C28: in safeClick a delay is awaited after each failed click that is not
\* the last allowed attempt and nowhere else: none before the first click,
\* none after a successful click, none after the final failed click; when
\* all n allowed attempts fail there were exactly n-1 waits and the error is
\* thrown in the step of the n-th failure.
C28_Waits ==
  /\ [](/\ spc = "idle" => swaits = 0
        /\ spc = "loop" => swaits = sclicks
        /\ spc = "click" => swaits = sclicks - 1
        /\ spc = "wait" => (swaits = sclicks /\ sattempt < sretries)
        /\ spc = "returned" => swaits = (IF sclicks = 0 THEN 0 ELSE sclicks - 1)
        /\ (spc = "failed" /\ serr # WaitError) =>
              (sclicks = sretries /\ swaits = sclicks - 1)
        /\ (spc = "failed" /\ serr = WaitError) =>
              (sclicks < sretries /\ swaits = sclicks))
  /\ [][(spc = "click" /\ SOutcome(sscript, sclicks) # "ok"
           /\ sattempt = sretries)
          => (spc' = "failed" /\ swaits' = swaits
                /\ serr' = SOutcome(sscript, sclicks))]_vars
  /\ [][swaits' # swaits =>
          (spc = "click" /\ SOutcome(sscript, sclicks) # "ok"
             /\ sattempt < sretries /\ swaits' = swaits + 1)]_vars
\* three attempts all failed: two waits, then the click's error
C28_Witness ==
  /\ spc = "failed"
  /\ serr \in {"E1", "E2"}
  /\ sclicks = 3
  /\ swaits = 2

\* C23: the dialog wait resolves exactly once and never rejects: while it is
\* pending no event has happened; it resolves at the first event, with the
\* message of the dialog when the first event is a dialog (which the
\* listener accepts) and with the empty string when the first event is the
\* timer; the event that comes second does not change the settled value;
\* and every call resolves.
C23_ResolvesOnce ==
  /\ [](dpc \in {"idle", "pending", "resolved"})
  /\ [](dpc = "pending" => (devents = <<>> /\ dlistener /\ dtimer = "armed"))
  /\ [](dpc = "resolved" =>
          /\ devents # <<>>
          /\ devents[1].kind = "dialog" =>
               (dvalue = devents[1].msg /\ daccepted >= 1)
          /\ devents[1].kind = "timer" => dvalue = "")
  /\ [][dpc = "resolved" => (dpc' = "resolved" /\ dvalue' = dvalue)]_vars
  /\ (dpc = "pending") ~> (dpc = "resolved")
\* a dialog came first and the timer fired afterwards: both called resolve
C23_Witness ==
  /\ dpc = "resolved"
  /\ dsettles = 2
  /\ devents[1].kind = "dialog"
  /\ devents[1].msg = "Product added"
  /\ devents[2].kind = "timer"
  /\ dvalue = "Product added"
\* the timer came first and a dialog was raised afterwards
C23_WitnessTimeout ==
  /\ dpc = "resolved"
  /\ Len(devents) = 2
  /\ devents[1].kind = "timer"
  /\ devents[2].kind = "dialog"
  /\ devents[2].msg # ""
  /\ dvalue = ""

\* C29 (as stated): once the dialog wait has returned the empty string
\* because its timeout fired, a dialog raised on the page afterwards is not
\* accepted by the listener that call registered.
C29_AsStated ==
  (dpc = "resolved" /\ devents # <<>> /\ devents[1].kind = "timer")
    => daccepted = 0

\* C22: for the same behaviour of the caller's function and the same
\* explicit or defaulted arguments, waitForCondition and retryOperation of
\* WaitHelper.ts and of the named-constants variant perform the same
\* sequence of invocations and sleeps and end with the same outcome; the
\* documented variant, which has no pollIntervalMs parameter, agrees with
\* them on every call that leaves pollIntervalMs out.
C22_Equivalent ==
  /\ ecall.fn # "none" => (Len(elit) = 1 /\ Len(enam) = 1 /\ elit = enam)
  /\ (ecall.fn = "wait" /\ ~ecall.poll.given) =>
        elit[1] = DocWaitFrom(ecall.env, now, NamedTimeout(ecall.timeout),
                              now, 0, <<>>)
\* a call with both arguments defaulted whose condition stayed false: it
\* polled fifty times and timed out
C22_Witness ==
  /\ ecall.fn = "wait"
  /\ ~ecall.timeout.given
  /\ ~ecall.poll.given
  /\ ecall.env.lat = 0
  /\ ecall.env.late = 0
  /\ elit[1].outcome = "timeout"
  /\ elit[1].message = 5000
  /\ Len(enam[1].run) = 100
\* a retry with maxRetries defaulted that failed after three invocations
C22_WitnessRetry ==
  /\ ecall.fn = "retry"
  /\ ~ecall.maxRetries.given
  /\ enam[1].pc = "failed"
  /\ enam[1].calls = 3
  /\ elit[1].out \in Errors
====
